---- MODULE Spec2Model ----
(***************************************************************************)
(* Model of the analysis submission and rendering pipeline of the          *)
(* ConflictAnalyzer class (main script of the research-integrity           *)
(* front-end): upload or URL -> fetch -> res.json() -> completeAnalysis -> *)
(* parseAnalysis -> displayAnalysisResults -> localStorage.                *)
(*                                                                         *)
(* Conventions.                                                            *)
(*  - A JavaScript string is a sequence of atoms (TLA+ strings): one atom  *)
(*    per JSON punctuation mark, quote, digit, whitespace character, and   *)
(*    one atom per word of ordinary text.                                  *)
(*  - A JavaScript value is a tagged record (Undef, Null, Bool, Num, Str,  *)
(*    Arr, Obj).  An object is the ordered sequence of its <<key, value>>  *)
(*    members, keys being JavaScript strings.                              *)
(*  - The page is the one the script is written for: every element the     *)
(*    script looks up by id exists.                                        *)
(*  - localStorage.setItem does not throw.                                 *)
(*  - Of an anime() animation only the values it animates to are kept; the *)
(*    progress bar animation, which nothing reads, is left out.            *)
(*  - The numbers of a JSON text are the non-negative integers.            *)
(***************************************************************************)
EXTENDS Integers, Sequences, FiniteSets, TLC

\* Bound on the number of analyzeFile / analyzeFromURL calls in a behaviour.
MaxSubmissions == 2

-----------------------------------------------------------------------------
(* JavaScript values *)

Undef == [t |-> "undefined"]
Null == [t |-> "null"]
Bool(b) == [t |-> "boolean", b |-> b]
Num(n) == [t |-> "number", n |-> n]
Str(s) == [t |-> "string", s |-> s]
Arr(e) == [t |-> "array", e |-> e]
Obj(kv) == [t |-> "object", kv |-> kv]

\* A one-word string, used for property names and enumerated values.
W(a) == <<a>>

\* ToBoolean: the falsy values are undefined, null, false, 0 and "".
Truthy(v) ==
  CASE v.t = "undefined" -> FALSE
    [] v.t = "null" -> FALSE
    [] v.t = "boolean" -> v.b
    [] v.t = "number" -> v.n # 0
    [] v.t = "string" -> v.s # <<>>
    [] OTHER -> TRUE

\* a || b
Or(a, b) == IF Truthy(a) THEN a ELSE b

\* Property read v.k for a value that is neither null nor undefined.  The
\* keys read by the script are own properties of plain objects only.
Get(v, k) ==
  IF v.t = "object" /\ \E j \in 1..Len(v.kv) : v.kv[j][1] = k
  THEN v.kv[CHOOSE j \in 1..Len(v.kv) : v.kv[j][1] = k][2]
  ELSE Undef

\* Property read on null or undefined throws a TypeError.
Nullish(v) == v.t \in {"undefined", "null"}

\* obj[k] = v: replaces the value of an existing member in place, else appends.
SetMember(kv, k, v) ==
  IF \E j \in 1..Len(kv) : kv[j][1] = k
  THEN [j \in 1..Len(kv) |-> IF kv[j][1] = k THEN <<k, v>> ELSE kv[j]]
  ELSE Append(kv, <<k, v>>)

-----------------------------------------------------------------------------
(* Lexical atoms *)

Q == "\""
Backslash == "\\"
WS == {" ", "\t", "\n"}
Digits == {"0", "1", "2", "3", "4", "5", "6", "7", "8", "9"}

DigitVal(d) ==
  CASE d = "0" -> 0 [] d = "1" -> 1 [] d = "2" -> 2 [] d = "3" -> 3
    [] d = "4" -> 4 [] d = "5" -> 5 [] d = "6" -> 6 [] d = "7" -> 7
    [] d = "8" -> 8 [] d = "9" -> 9

DigitOf(n) == CHOOSE d \in Digits : DigitVal(d) = n

\* String.prototype.trim: strips leading and trailing whitespace.
RECURSIVE TrimStart(_)
TrimStart(s) ==
  IF s # <<>> /\ Head(s) \in WS THEN TrimStart(Tail(s)) ELSE s

RECURSIVE TrimEnd(_)
TrimEnd(s) ==
  IF s # <<>> /\ s[Len(s)] \in WS THEN TrimEnd(SubSeq(s, 1, Len(s) - 1)) ELSE s

TrimIdentity(s) == s

TrimStartOnly(s) == TrimStart(s)

Trim(s) == TrimEnd(TrimStart(s))

-----------------------------------------------------------------------------
(* JSON.parse *)

Fail == [ok |-> FALSE, v |-> Undef, i |-> 0]
Ok(v, i) == [ok |-> TRUE, v |-> v, i |-> i]

\* Index of the first non-whitespace atom at or after i (Len(t) + 1 if none).
RECURSIVE SkipWs(_, _)
SkipWs(t, i) ==
  IF i <= Len(t) /\ t[i] \in WS THEN SkipWs(t, i + 1) ELSE i

\* Position p of a string literal whose content starts at i is the second
\* atom of an escape sequence: a backslash that is not itself escaped comes
\* right before it.
RECURSIVE Escaped(_, _, _)
Escaped(t, i, p) == p > i /\ t[p - 1] = Backslash /\ ~Escaped(t, i, p - 1)

\* Position p is the backslash that opens an escape sequence.
Escaper(t, i, p) == t[p] = Backslash /\ ~Escaped(t, i, p)

Unescape(a) == IF a = "t" THEN "\t" ELSE IF a = "n" THEN "\n" ELSE a

\* The positions at or after i of the quotes that are not escaped.
ClosingQuotes(t, i) == {j \in i..Len(t) : t[j] = Q /\ ~Escaped(t, i, j)}

\* The characters of a string literal, kept being the positions of its
\* content that do not open an escape sequence.
Decode(t, i, kept) ==
  [k \in 1..Len(kept) |->
     IF Escaped(t, i, kept[k]) THEN Unescape(t[kept[k]]) ELSE t[kept[k]]]

\* The string literal whose content is t[i..j-1], j being its closing quote:
\* an unknown escape sequence or a raw control character is an error.
CharsBetween(t, i, j) ==
  IF \E p \in i..(j - 1) :
       \/ Escaper(t, i, p) /\ t[p + 1] \notin {Q, Backslash, "t", "n"}
       \/ ~Escaper(t, i, p) /\ ~Escaped(t, i, p) /\ t[p] \in {"\t", "\n"}
  THEN Fail
  ELSE Ok(Str(Decode(t, i, SelectSeq([k \in 1..(j - i) |-> i + k - 1],
                                     LAMBDA p : ~Escaper(t, i, p)))), j + 1)

CharsUpTo(t, i, closing) ==
  IF closing = {} THEN Fail
  ELSE CharsBetween(t, i, CHOOSE c \in closing : \A d \in closing : c <= d)

\* A string literal whose content starts at i (its opening quote is at
\* i - 1): it ends at the first quote that is not escaped.
ParseChars(t, i) == CharsUpTo(t, i, ClosingQuotes(t, i))

\* A number literal: a maximal run of digits without a leading zero.
RECURSIVE ParseDigits(_, _, _)
ParseDigits(t, i, acc) ==
  IF i <= Len(t) /\ t[i] \in Digits
  THEN ParseDigits(t, i + 1, 10 * acc + DigitVal(t[i]))
  ELSE Ok(Num(acc), i)

ParseNumber(t, i) ==
  IF t[i] = "0" /\ i + 1 <= Len(t) /\ t[i + 1] \in Digits
  THEN Fail
  ELSE ParseDigits(t, i, 0)

RECURSIVE ParseValue(_, _)
RECURSIVE ParseMembers(_, _, _)
RECURSIVE ParseElements(_, _, _)

\* After a member: d is the index of the atom that follows its value.
MembersEnd(t, d, kv) ==
  IF d > Len(t) THEN Fail
  ELSE IF t[d] = "}" THEN Ok(Obj(kv), d + 1)
  ELSE IF t[d] = "," THEN ParseMembers(t, d + 1, kv)
  ELSE Fail

\* k is the parsed key and v the parsed value of a member.
MemberValue(t, k, v, kv) ==
  IF ~v.ok THEN Fail
  ELSE MembersEnd(t, SkipWs(t, v.i), SetMember(kv, k.v.s, v.v))

\* c is the index of the atom that follows the key, which must be a colon.
MemberColon(t, k, c, kv) ==
  IF c > Len(t) \/ t[c] # ":" THEN Fail
  ELSE MemberValue(t, k, ParseValue(t, c + 1), kv)

MemberKey(t, k, kv) ==
  IF ~k.ok THEN Fail ELSE MemberColon(t, k, SkipWs(t, k.i), kv)

\* a is the index of the atom where a key must start.
MemberAt(t, a, kv) ==
  IF a > Len(t) \/ t[a] # Q THEN Fail
  ELSE MemberKey(t, ParseChars(t, a + 1), kv)

\* Members of an object, i being the index where a key is expected.
ParseMembers(t, i, kv) == MemberAt(t, SkipWs(t, i), kv)

\* After an element: d is the index of the atom that follows it.
ElementsEnd(t, d, e) ==
  IF d > Len(t) THEN Fail
  ELSE IF t[d] = "]" THEN Ok(Arr(e), d + 1)
  ELSE IF t[d] = "," THEN ParseElements(t, d + 1, e)
  ELSE Fail

ElementValue(t, v, e) ==
  IF ~v.ok THEN Fail ELSE ElementsEnd(t, SkipWs(t, v.i), Append(e, v.v))

\* Elements of an array, i being the index where a value is expected.
ParseElements(t, i, e) == ElementValue(t, ParseValue(t, i), e)

\* b is the index of the first atom after the opening brace / bracket at a.
ObjectAt(t, a, b) ==
  IF b <= Len(t) /\ t[b] = "}" THEN Ok(Obj(<<>>), b + 1)
  ELSE ParseMembers(t, a + 1, <<>>)

ArrayAt(t, a, b) ==
  IF b <= Len(t) /\ t[b] = "]" THEN Ok(Arr(<<>>), b + 1)
  ELSE ParseElements(t, a + 1, <<>>)

\* The value that starts at the non-whitespace position a.
ValueAt(t, a) ==
  IF a > Len(t) THEN Fail
  ELSE IF t[a] = "{" THEN ObjectAt(t, a, SkipWs(t, a + 1))
  ELSE IF t[a] = "[" THEN ArrayAt(t, a, SkipWs(t, a + 1))
  ELSE IF t[a] = Q THEN ParseChars(t, a + 1)
  ELSE IF t[a] \in Digits THEN ParseNumber(t, a)
  ELSE IF t[a] = "null" THEN Ok(Null, a + 1)
  ELSE IF t[a] = "true" THEN Ok(Bool(TRUE), a + 1)
  ELSE IF t[a] = "false" THEN Ok(Bool(FALSE), a + 1)
  ELSE Fail

ParseValue(t, i) == ValueAt(t, SkipWs(t, i))

\* Only whitespace may follow the value.
WholeText(t, r) ==
  IF r.ok /\ SkipWs(t, r.i) > Len(t) THEN [ok |-> TRUE, v |-> r.v]
  ELSE [ok |-> FALSE, v |-> Undef]

\* JSON.parse(t): ok is FALSE where JSON.parse throws a SyntaxError.
JSONparse(t) == WholeText(t, ParseValue(t, 1))

-----------------------------------------------------------------------------
(* JSON.stringify and string conversion *)

RECURSIVE NumText(_)
NumText(n) ==
  IF n < 10 THEN <<DigitOf(n)>> ELSE NumText(n \div 10) \o <<DigitOf(n % 10)>>

EscapeAtom(a) ==
  IF a \in {Q, Backslash} THEN <<Backslash, a>>
  ELSE IF a = "\t" THEN <<Backslash, "t">>
  ELSE IF a = "\n" THEN <<Backslash, "n">>
  ELSE <<a>>

RECURSIVE Escape(_)
Escape(s) ==
  IF s = <<>> THEN <<>>
  ELSE IF Len(s) = 1 THEN EscapeAtom(s[1])
  ELSE Escape(SubSeq(s, 1, Len(s) \div 2))
       \o Escape(SubSeq(s, Len(s) \div 2 + 1, Len(s)))

Quote(s) == <<Q>> \o Escape(s) \o <<Q>>

RECURSIVE JSONstringify(_)
RECURSIVE StringifyMembers(_, _)
RECURSIVE StringifyElements(_, _)

\* Members whose value is undefined are left out.
StringifyMembers(kv, first) ==
  IF kv = <<>> THEN <<>>
  ELSE IF Head(kv)[2].t = "undefined" THEN StringifyMembers(Tail(kv), first)
  ELSE (IF first THEN <<>> ELSE <<",">>)
       \o Quote(Head(kv)[1]) \o <<":">> \o JSONstringify(Head(kv)[2])
       \o StringifyMembers(Tail(kv), FALSE)

StringifyElements(e, first) ==
  IF e = <<>> THEN <<>>
  ELSE (IF first THEN <<>> ELSE <<",">>)
       \o JSONstringify(Head(e))
       \o StringifyElements(Tail(e), FALSE)

JSONstringify(v) ==
  CASE v.t = "null" -> <<"null">>
    [] v.t = "undefined" -> <<"null">>
    [] v.t = "boolean" -> IF v.b THEN <<"true">> ELSE <<"false">>
    [] v.t = "number" -> NumText(v.n)
    [] v.t = "string" -> Quote(v.s)
    [] v.t = "array" -> <<"[">> \o StringifyElements(v.e, TRUE) \o <<"]">>
    [] v.t = "object" -> <<"{">> \o StringifyMembers(v.kv, TRUE) \o <<"}">>

RECURSIVE ToText(_)
RECURSIVE JoinText(_, _)

\* Array.prototype.join(","): null and undefined elements give "".
JoinText(e, first) ==
  IF e = <<>> THEN <<>>
  ELSE (IF first THEN <<>> ELSE <<",">>)
       \o (IF Head(e).t \in {"null", "undefined"} THEN <<>> ELSE ToText(Head(e)))
       \o JoinText(Tail(e), FALSE)

\* String(v), as in ${v} of a template literal or in a property key.
ToText(v) ==
  CASE v.t = "string" -> v.s
    [] v.t = "number" -> NumText(v.n)
    [] v.t = "boolean" -> IF v.b THEN <<"true">> ELSE <<"false">>
    [] v.t = "null" -> <<"null">>
    [] v.t = "undefined" -> <<"undefined">>
    [] v.t = "object" -> <<"[object Object]">>
    [] v.t = "array" -> JoinText(v.e, TRUE)

-----------------------------------------------------------------------------
(* Constants of the script *)

API_BASE_URL == "https://research-integrity-backend.onrender.com"
PdfType == W("application/pdf")

MsgNotPdf == "Please upload a PDF file."
MsgFileFailed == "Analysis failed. Check backend connection."
MsgUrlFailed == "Could not analyze this URL."
MsgNoData == "No analysis data returned."
StatusFile == "Uploading and analyzing PDF..."
StatusUrl == "Fetching and analyzing URL..."

kRisk == W("overall_risk")
kScore == W("score")
kCategories == W("categories")
kSummary == W("summary")
kAnalysis == W("analysis")
kMetadata == W("metadata")
kName == W("name")
kIcon == W("icon")
kLevel == W("level")
kDescription == W("description")

-----------------------------------------------------------------------------
(* State *)

VARIABLES
  subs,          \* activations of analyzeFile / analyzeFromURL, in call order
  requests,      \* the fetch calls issued so far, in order
  ui,            \* the part of the document the script reads and writes
  localStorage,  \* the item 'currentAnalysis' (Null when not set)
  fileEvent      \* a dispatched, not yet handled 'change'/'drop' event

vars == <<subs, requests, ui, localStorage, fileEvent>>

NoEvent == [pending |-> FALSE, type |-> <<>>]

\* How the promise of res.json() settles: fulfilled with v, or rejected.
NoData == [ok |-> FALSE, v |-> Undef]

\* An activation: kind is "file" or "url"; pc is where it stands;
\* status is res.status once fetch has fulfilled (0: fetch rejected or not
\* settled); data is the settlement of res.json() once the body is read,
\* dropped when the activation ends.
Activation(kind, pc) == [kind |-> kind, pc |-> pc, status |-> 0, data |-> NoData]

\* A promise has settled and its continuation has not run yet.
Settled(i) == subs[i].pc \in {"fetched", "read"}
InFlight(i) == subs[i].pc \in {"fetch", "fetched", "json", "read"}

\* The event loop is between tasks: no handler or continuation is queued.
Idle == ~fileEvent.pending /\ \A i \in 1..Len(subs) : ~Settled(i)

-----------------------------------------------------------------------------
(* Methods of ConflictAnalyzer.  A method takes and returns the record       *)
(* m = [ui, ls, thrown]: the document, localStorage and whether an           *)
(* exception is propagating.                                                 *)

Throw(m) == [m EXCEPT !.thrown = TRUE]

showError(m, msg) == [m EXCEPT !.ui.errors = Append(@, msg)]

showAnalysisProgress(m, message) ==
  [m EXCEPT !.ui.progress = "block", !.ui.status = message]

IsPdfLoose(type) == type \in {PdfType, W("application/x-pdf")}

\* file.type !== 'application/pdf', negated
IsPdf(type) == type = PdfType

ResOkNoUpperBound(status) == status >= 200

\* res.ok
ResOk(status) == status >= 200 /\ status <= 299

FallbackNoSummary(raw) ==
  Obj(<< <<kRisk, Str(W("medium"))>>, <<kScore, Num(50)>>,
         <<kCategories, Arr(<<>>)>> >>)

Fallback(raw) ==
  Obj(<< <<kRisk, Str(W("medium"))>>, <<kScore, Num(50)>>,
         <<kCategories, Arr(<<>>)>>, <<kSummary, raw>> >>)

\* try { JSON.parse(raw) } catch { fallback }, r being JSON.parse(raw).
ParsedOrFallback(r, raw) == IF r.ok THEN r.v ELSE Fallback(raw)

parseAnalysis(raw) ==
  IF raw.t = "string" THEN ParsedOrFallback(JSONparse(raw.s), raw) ELSE raw

\* map[risk] || 50, for a risk that names no inherited property of map.
calculateRiskPercentage(risk) ==
  CASE ToText(risk) = W("low") -> 30
    [] ToText(risk) = W("medium") -> 60
    [] ToText(risk) = W("high") -> 90
    [] OTHER -> 50

getRiskColor(risk) ==
  CASE ToText(risk) = W("low") -> "#27ae60"
    [] ToText(risk) = W("medium") -> "#f39c12"
    [] ToText(risk) = W("high") -> "#e74c3c"
    [] OTHER -> "#7f8c8d"

\* String.prototype.toUpperCase on the words a risk level is made of.
UpperAtom(a) ==
  CASE a = "low" -> "LOW" [] a = "medium" -> "MEDIUM" [] a = "high" -> "HIGH"
    [] a = "critical" -> "CRITICAL" [] OTHER -> a

ToUpperCase(s) == [j \in 1..Len(s) |-> UpperAtom(s[j])]

\* text.textContent and text.style.color; toUpperCase throws a TypeError on
\* a level that is not a string.
RiskLabel(m, level) ==
  IF level.t # "string" THEN Throw(m)
  ELSE [m EXCEPT !.ui.riskText = ToUpperCase(level.s) \o <<" RISK">>,
                 !.ui.riskColor = getRiskColor(level)]

\* The meter animation is started before the label is written.
updateRiskMeter(m, level) ==
  RiskLabel([m EXCEPT !.ui.meter = [percentage |-> calculateRiskPercentage(level),
                                     color |-> getRiskColor(level)]], level)

createCategoryCard(category) ==
  [icon |-> ToText(category.icon),
   name |-> ToText(category.name),
   riskLevel |-> ToText(category.riskLevel),
   description |-> ToText(category.description),
   score |-> ToText(category.score) \o <<"/100">>]

\* The body of the forEach callback for one category c.
CardOf(c) ==
  createCategoryCard([name |-> Or(Get(c, kName), Str(W("Category"))),
                      icon |-> Or(Get(c, kIcon), Str(W("page-glyph"))),
                      riskLevel |-> Or(Get(c, kLevel), Str(W("medium"))),
                      score |-> Or(Get(c, kScore), Num(50)),
                      description |-> Or(Get(c, kDescription),
                                         Str(W("No description provided")))])

RECURSIVE AppendCards(_, _)
AppendCards(m, cs) ==
  IF cs = <<>> THEN m
  ELSE IF Nullish(Head(cs)) THEN Throw(m)
  ELSE AppendCards([m EXCEPT !.ui.cards = Append(@, CardOf(Head(cs)))], Tail(cs))

\* container.innerHTML = ''; forEach exists on arrays only.
updateCategoryCards(m, categories) ==
  IF categories.t # "array" THEN Throw([m EXCEPT !.ui.cards = <<>>])
  ELSE AppendCards([m EXCEPT !.ui.cards = <<>>], categories.e)

\* resultsSection.style.display = 'block', unless an exception propagates.
ShowResults(m) == IF m.thrown THEN m ELSE [m EXCEPT !.ui.results = "block"]

\* The statements after updateRiskMeter, unless it has thrown.
DisplayCards(m, analysis) ==
  IF m.thrown THEN m
  ELSE ShowResults(updateCategoryCards(m, Or(Get(analysis, kCategories), Arr(<<>>))))

displayAnalysisResults(m, analysis) ==
  IF Nullish(analysis) THEN Throw(m)
  ELSE DisplayCards(updateRiskMeter(m, Or(Get(analysis, kRisk), Str(W("medium")))),
                    analysis)

\* localStorage.setItem('currentAnalysis', JSON.stringify(parsed)), unless
\* displayAnalysisResults has thrown.
StoreResult(m, parsed) ==
  IF m.thrown THEN m ELSE [m EXCEPT !.ls = Str(JSONstringify(parsed))]

\* The statements of completeAnalysis after parseAnalysis.
DisplayAndStore(m, parsed) == StoreResult(displayAnalysisResults(m, parsed), parsed)

completeAnalysis(m, analysis) ==
  IF ~Truthy(analysis)
  THEN showError([m EXCEPT !.ui.progress = "none"], MsgNoData)
  ELSE DisplayAndStore([m EXCEPT !.ui.progress = "none"], parseAnalysis(analysis))

\* The message of the catch block of each method.
CatchMsg(kind) == IF kind = "file" THEN MsgFileFailed ELSE MsgUrlFailed

\* The catch block: console.error, then showError.
Catch(m, kind) == showError([m EXCEPT !.thrown = FALSE], CatchMsg(kind))

\* try { ... } catch: the catch block runs if the try block has thrown.
TryCatch(m, kind) == IF m.thrown THEN Catch(m, kind) ELSE m

\* fetch(url, {method: "POST", body: formData}) called by activation i.
Request(i, path, field, value) ==
  [sub |-> i, method |-> "POST", url |-> <<API_BASE_URL, path>>,
   form |-> << <<field, value>> >>]

\* The try block after `await res.json()` has settled as data.
AfterJson(m, data) ==
  IF ~data.ok \/ Nullish(data.v) THEN Throw(m)
  ELSE completeAnalysis(m, Get(data.v, kAnalysis))

\* The document and localStorage become those of m.
Becomes(m) == ui' = m.ui /\ localStorage' = m.ls

Here == [ui |-> ui, ls |-> localStorage, thrown |-> FALSE]

-----------------------------------------------------------------------------
(* Inputs *)

PaperUrl == "https://example.com/paper"

FileTypes == {PdfType, W("application/x-pdf")}
UrlInputs == {<<>>, <<" ", "\n">>, <<" ", PaperUrl, "\t">>}
Statuses == {200, 500}

CatFunding ==
  Obj(<< <<kName, Str(W("Funding"))>>, <<kScore, Num(80)>>, <<kLevel, Str(W("high"))>> >>)
CatZero ==
  Obj(<< <<kName, Str(W("Ethics"))>>, <<kIcon, Str(W("scale-glyph"))>>,
         <<kLevel, Str(W("low"))>>, <<kScore, Num(0)>>,
         <<kDescription, Str(W("Clean"))>> >>)

ResultHigh ==
  Obj(<< <<kRisk, Str(W("high"))>>, <<kScore, Num(88)>>,
         <<kCategories, Arr(<<CatFunding>>)>> >>)
ResultFull ==
  Obj(<< <<kRisk, Str(W("low"))>>, <<kScore, Num(12)>>,
         <<kCategories, Arr(<<CatZero, Obj(<<>>)>>)>>,
         <<kSummary, Str(W("Fine"))>> >>)
ResultSummaryOnly == Obj(<< <<kSummary, Str(W("Inconclusive"))>> >>)
ResultNullCategory ==
  Obj(<< <<kRisk, Str(W("critical"))>>, <<kScore, Num(50)>>,
         <<kCategories, Arr(<<CatFunding, Null>>)>>, <<kSummary, Str(W("x"))>> >>)

\* The values the backend may send as `analysis`.
Analyses ==
  { ResultHigh, ResultSummaryOnly, ResultNullCategory, Str(JSONstringify(ResultFull)),
    Str(<<"{", Q, "score", Q, ":">>), Str(<<"null">>), Str(<<>>), Null }

BodyWith(a) == JSONstringify(Obj(<< <<kAnalysis, a>>, <<kMetadata, Obj(<<>>)>> >>))

\* The response texts: with an analysis, without one, JSON null, not JSON.
Bodies ==
  { BodyWith(a) : a \in Analyses }
    \cup { JSONstringify(Obj(<< <<kMetadata, Obj(<<>>)>> >>)),
           <<"null">>, <<"<html>", "Bad", " ", "Gateway">> }

\* res.json() applied to each of the response texts.
Settlements == { JSONparse(b) : b \in Bodies }

\* What an earlier session may have left in localStorage.
Stored == { Null, Str(JSONstringify(ResultFull)) }

-----------------------------------------------------------------------------
(* Initial state: the page after DOMContentLoaded *)

Init ==
  /\ subs = <<>>
  /\ requests = <<>>
  /\ ui = [progress |-> "none", status |-> "", meter |-> [percentage |-> 0, color |-> ""],
           riskText |-> <<>>, riskColor |-> "", cards |-> <<>>, results |-> "none",
           errors |-> <<>>, urlInput |-> <<>>]
  /\ localStorage \in Stored
  /\ fileEvent = NoEvent

-----------------------------------------------------------------------------
(* Actions *)

\* The user edits the URL field.
TypeUrl ==
  /\ Idle
  /\ Len(subs) < MaxSubmissions
  /\ \E v \in UrlInputs : v # ui.urlInput /\ ui' = [ui EXCEPT !.urlInput = v]
  /\ UNCHANGED <<subs, requests, localStorage, fileEvent>>

\* The user picks or drops a file: a 'change' or 'drop' event with one file.
ChooseFile ==
  /\ Idle
  /\ Len(subs) < MaxSubmissions
  /\ \E type \in FileTypes : fileEvent' = [pending |-> TRUE, type |-> type]
  /\ UNCHANGED <<subs, requests, ui, localStorage>>

\* analyzeFile(file) up to its first await (or its early return).
AnalyzeFile ==
  /\ fileEvent.pending
  /\ fileEvent' = NoEvent
  /\ IF ~IsPdf(fileEvent.type)
     THEN /\ ui' = showError(Here, MsgNotPdf).ui
          /\ subs' = Append(subs, Activation("file", "returned"))
          /\ UNCHANGED requests
     ELSE /\ ui' = showAnalysisProgress(Here, StatusFile).ui
          /\ requests' = Append(requests,
                 Request(Len(subs) + 1, "/analyze_pdf", "file", fileEvent.type))
          /\ subs' = Append(subs, Activation("file", "fetch"))
  /\ UNCHANGED localStorage

\* analyzeFromURL() up to its first await (or its early return).
AnalyzeFromURL ==
  /\ Idle
  /\ Len(subs) < MaxSubmissions
  /\ LET url == Trim(ui.urlInput) IN
     IF url = <<>>
     THEN /\ subs' = Append(subs, Activation("url", "returned"))
          /\ UNCHANGED <<requests, ui>>
     ELSE /\ ui' = showAnalysisProgress(Here, StatusUrl).ui
          /\ requests' = Append(requests,
                 Request(Len(subs) + 1, "/analyze_url", "url", url))
          /\ subs' = Append(subs, Activation("url", "fetch"))
  /\ UNCHANGED <<localStorage, fileEvent>>

\* The network: the fetch promise of activation i fulfils with a response.
FetchFulfilled(i) ==
  /\ Idle
  /\ subs[i].pc = "fetch"
  /\ \E st \in Statuses : subs' = [subs EXCEPT ![i].pc = "fetched", ![i].status = st]
  /\ UNCHANGED <<requests, ui, localStorage, fileEvent>>

\* The network: the fetch promise of activation i rejects.
FetchRejected(i) ==
  /\ Idle
  /\ subs[i].pc = "fetch"
  /\ subs' = [subs EXCEPT ![i].pc = "fetched", ![i].status = 0]
  /\ UNCHANGED <<requests, ui, localStorage, fileEvent>>

\* The continuation after `await fetch(...)`: status 0 stands for a rejected
\* promise, which enters the catch block like the thrown "Server error".
AfterFetch(i) ==
  /\ subs[i].pc = "fetched"
  /\ IF subs[i].status # 0 /\ ResOk(subs[i].status)
     THEN /\ subs' = [subs EXCEPT ![i].pc = "json"]
          /\ UNCHANGED ui
     ELSE /\ subs' = [subs EXCEPT ![i].pc = "done"]
          /\ ui' = Catch(Here, subs[i].kind).ui
  /\ UNCHANGED <<requests, localStorage, fileEvent>>

\* The network: the body of the response of activation i has been read and
\* the promise of res.json() settles.
BodyRead(i) ==
  /\ Idle
  /\ subs[i].pc = "json"
  /\ \E d \in Settlements : subs' = [subs EXCEPT ![i].pc = "read", ![i].data = d]
  /\ UNCHANGED <<requests, ui, localStorage, fileEvent>>

\* The continuation after `await res.json()`: a rejection enters the catch
\* block; otherwise completeAnalysis runs, and any exception it throws ends
\* in the catch block too.
AfterJsonStep(i) ==
  /\ subs[i].pc = "read"
  /\ Becomes(TryCatch(AfterJson(Here, subs[i].data), subs[i].kind))
  /\ subs' = [subs EXCEPT ![i].pc = "done", ![i].data = NoData]
  /\ UNCHANGED <<requests, fileEvent>>

\* setTimeout(() => el.remove(), 4000): the timers fire in creation order.
ErrorTimeout ==
  /\ Idle
  /\ ui.errors # <<>>
  /\ ui' = [ui EXCEPT !.errors = Tail(@)]
  /\ UNCHANGED <<subs, requests, localStorage, fileEvent>>

Next ==
  \/ TypeUrl
  \/ ChooseFile
  \/ AnalyzeFile
  \/ AnalyzeFromURL
  \/ \E i \in 1..Len(subs) : FetchFulfilled(i)
  \/ \E i \in 1..Len(subs) : FetchRejected(i)
  \/ \E i \in 1..Len(subs) : AfterFetch(i)
  \/ \E i \in 1..Len(subs) : BodyRead(i)
  \/ \E i \in 1..Len(subs) : AfterJsonStep(i)
  \/ ErrorTimeout

Spec == Init /\ [][Next]_vars

-----------------------------------------------------------------------------
(* Vocabulary of the properties *)

Last(q) == q[Len(q)]
AllWhitespace(s) == \A k \in 1..Len(s) : s[k] \in WS

\* v is s without its leading and trailing whitespace, and is not empty.
IsTrimOf(v, s) ==
  /\ v # <<>> /\ v[1] \notin WS /\ v[Len(v)] \notin WS
  /\ \E a \in 0..Len(s) :
       /\ a + Len(v) <= Len(s)
       /\ SubSeq(s, a + 1, a + Len(v)) = v
       /\ \A k \in (1..a) \cup ((a + Len(v) + 1)..Len(s)) : s[k] \in WS

RequestsOf(i) == {k \in 1..Len(requests) : requests[k].sub = i}

\* What the risk meter, its label and the category cards show.
Display(u) == <<u.meter, u.riskText, u.riskColor, u.cards, u.results>>

\* analyzeFile runs in this step / analyzeFromURL runs in this step.
FileCall == fileEvent.pending /\ Len(subs') = Len(subs) + 1
UrlCall == ~fileEvent.pending /\ Len(subs') = Len(subs) + 1

\* Activation i ends in this step.
Ends(i) == InFlight(i) /\ subs'[i].pc = "done"

\* The analysis carried by the response whose continuation is about to run.
HasData(i) == subs[i].pc = "read" /\ subs[i].data.ok /\ ~Nullish(subs[i].data.v)
AnalysisOf(i) == Get(subs[i].data.v, kAnalysis)

-----------------------------------------------------------------------------
(* C1 *)

\* C1: analyzeFile on a file whose type is not exactly application/pdf shows
\* the error message and returns: no request is issued then or later for
\* it, the progress state is not entered and 'currentAnalysis' is unchanged.
C1_NonPdfRejected ==
  /\ [](\A i \in 1..Len(subs) : subs[i].pc = "returned" => RequestsOf(i) = {})
  /\ [][(FileCall /\ fileEvent.type # W("application/pdf")) =>
          /\ Last(subs').pc = "returned"
          /\ ui'.errors = Append(ui.errors, MsgNotPdf)
          /\ requests' = requests
          /\ ui'.progress = ui.progress /\ ui'.status = ui.status
          /\ localStorage' = localStorage]_vars

C1_Witness ==
  \E i \in 1..Len(subs) :
    /\ subs[i].kind = "file" /\ subs[i].pc = "returned"
    /\ ui.errors # <<>> /\ Last(ui.errors) = MsgNotPdf
    /\ RequestsOf(i) = {}

-----------------------------------------------------------------------------
(* C2 *)

\* C2: analyzeFromURL on an empty or whitespace-only field changes nothing:
\* no request, no error message, no progress state, same display, same
\* 'currentAnalysis'.
C2_BlankUrlNoOp ==
  [][(UrlCall /\ AllWhitespace(ui.urlInput)) =>
       /\ Last(subs').pc = "returned"
       /\ requests' = requests
       /\ ui' = ui
       /\ localStorage' = localStorage]_vars

C2_Witness ==
  /\ subs # <<>>
  /\ Last(subs).kind = "url" /\ Last(subs).pc = "returned"
  /\ ui.urlInput = <<" ", "\n">>
  /\ RequestsOf(Len(subs)) = {}

-----------------------------------------------------------------------------
(* C3 *)

\* The request of activation i has failed: fetch rejected, or the status is
\* not in 200..299, or reading the body as JSON failed.
RequestFailed(i) ==
  \/ subs[i].pc = "fetched" /\ ~(subs[i].status >= 200 /\ subs[i].status <= 299)
  \/ subs[i].pc = "read" /\ ~subs[i].data.ok

\* C3: when the request of a submission fails, the submission ends with its
\* generic failure message shown, 'currentAnalysis' is left as it was and
\* the display is left as it was.
C3_FailureLeavesResult ==
  [][\A i \in 1..Len(subs) : RequestFailed(i) =>
       /\ subs'[i].pc = "done"
       /\ ui'.errors = Append(ui.errors,
            IF subs[i].kind = "file" THEN MsgFileFailed ELSE MsgUrlFailed)
       /\ localStorage' = localStorage
       /\ Display(ui') = Display(ui)]_vars

\* A request has ended with HTTP 500 after an earlier submission had its
\* result persisted and displayed.
C3_Witness ==
  \E i, j \in 1..Len(subs) :
    /\ subs[i].pc = "done" /\ subs[i].status = 500
    /\ subs[j].pc = "done" /\ subs[j].status = 200
    /\ localStorage = Str(JSONstringify(ResultHigh))
    /\ ui.results = "block" /\ ui.riskText = <<"HIGH", " RISK">>
    /\ ui.errors # <<>>

-----------------------------------------------------------------------------
(* C4 *)

Has(v, k) == v.t = "object" /\ \E j \in 1..Len(v.kv) : v.kv[j][1] = k

FullyPopulated(v) ==
  Has(v, kRisk) /\ Has(v, kScore) /\ Has(v, kCategories) /\ Has(v, kSummary)

\* C4: whatever is written to 'currentAnalysis' is a result with
\* overall_risk, score, categories and summary all present.
C4_PersistedFullyPopulated ==
  localStorage # Null =>
    LET r == JSONparse(localStorage.s) IN r.ok /\ FullyPopulated(r.v)

-----------------------------------------------------------------------------
(* C5 *)

Unparsable(a) == a.t = "string" /\ a.s # <<>> /\ ~JSONparse(a.s).ok

\* C5: a success response whose analysis is a non-empty string that is not
\* JSON ends without an error message, displaying and persisting exactly
\* {overall_risk: "medium", score: 50, categories: [], summary: the string}.
C5_UnparsableDegrades ==
  [][\A i \in 1..Len(subs) : (HasData(i) /\ Unparsable(AnalysisOf(i))) =>
       /\ subs'[i].pc = "done"
       /\ ui'.errors = ui.errors
       /\ ui'.progress = "none"
       /\ ui'.results = "block"
       /\ ui'.meter = [percentage |-> 60, color |-> "#f39c12"]
       /\ ui'.riskText = <<"MEDIUM", " RISK">>
       /\ ui'.cards = <<>>
       /\ localStorage'.t = "string"
       /\ JSONparse(localStorage'.s) =
            [ok |-> TRUE,
             v |-> Obj(<< <<kRisk, Str(W("medium"))>>, <<kScore, Num(50)>>,
                          <<kCategories, Arr(<<>>)>>,
                          <<kSummary, AnalysisOf(i)>> >>)]]_vars

C5_Witness ==
  /\ \E i \in 1..Len(subs) : subs[i].pc = "done" /\ subs[i].status = 200
  /\ localStorage.t = "string"
  /\ Get(JSONparse(localStorage.s).v, kSummary) = Str(<<"{", Q, "score", Q, ":">>)
  /\ ui.results = "block" /\ ui.riskText = <<"MEDIUM", " RISK">>

-----------------------------------------------------------------------------
(* C6 *)

\* C6: a submission that passes validation issues exactly one request, a
\* rejected one none; the request is a POST to /analyze_pdf with the single
\* field 'file', or to /analyze_url with the single field 'url' holding the
\* trimmed URL, and no further request is ever issued for the submission.
C6_ExactlyOneRequest ==
  /\ [](\A i \in 1..Len(subs) :
          IF subs[i].pc = "returned" THEN RequestsOf(i) = {}
          ELSE /\ Cardinality(RequestsOf(i)) = 1
               /\ \A k \in RequestsOf(i) :
                    /\ requests[k].method = "POST"
                    /\ Len(requests[k].form) = 1
                    /\ requests[k].url[1] = API_BASE_URL
                    /\ IF subs[i].kind = "file"
                       THEN /\ requests[k].url[2] = "/analyze_pdf"
                            /\ requests[k].form[1][1] = "file"
                       ELSE /\ requests[k].url[2] = "/analyze_url"
                            /\ requests[k].form[1][1] = "url")
  /\ [][/\ ((FileCall /\ fileEvent.type = W("application/pdf")) =>
              (/\ Len(requests') = Len(requests) + 1
               /\ Last(requests').sub = Len(subs')
               /\ Last(requests').form = << <<"file", fileEvent.type>> >>))
         /\ ((UrlCall /\ ~AllWhitespace(ui.urlInput)) =>
              (/\ Len(requests') = Len(requests) + 1
               /\ Last(requests').sub = Len(subs')
               /\ Last(requests').form[1][1] = "url"
               /\ IsTrimOf(Last(requests').form[1][2], ui.urlInput)))
         /\ (Len(subs') = Len(subs) => requests' = requests)]_vars

\* A URL submission and a file submission have both ended, the first by a
\* failure, with one request each.
C6_Witness ==
  \E i, j \in 1..Len(subs) :
    /\ subs[i].kind = "url" /\ subs[i].pc = "done" /\ subs[i].status = 500
    /\ subs[j].kind = "file" /\ subs[j].pc = "done"
    /\ Len(requests) = 2
    /\ \E k \in RequestsOf(i) : requests[k].form = << <<"url", W(PaperUrl)>> >>

-----------------------------------------------------------------------------
(* C7 *)

\* C7: once every submission that entered the progress state has ended, by
\* success or by failure, the progress indicator is hidden again.
C7_ProgressHiddenAtEnd ==
  ((\E i \in 1..Len(subs) : subs[i].pc = "done")
     /\ (\A i \in 1..Len(subs) : ~InFlight(i)) /\ ~fileEvent.pending)
    => ui.progress = "none"

-----------------------------------------------------------------------------
(* C8 *)

NoAnalysis(a) ==
  \/ Nullish(a)
  \/ a.t = "string" /\ JSONparse(a.s) = [ok |-> TRUE, v |-> Null]

\* C8: a success response whose analysis is absent, null, or null after
\* normalization ends with the message "No analysis data returned.", with
\* nothing displayed and 'currentAnalysis' not written.
C8_NoAnalysisData ==
  [][\A i \in 1..Len(subs) : (HasData(i) /\ NoAnalysis(AnalysisOf(i))) =>
       /\ ui'.errors = Append(ui.errors, MsgNoData)
       /\ Display(ui') = Display(ui)
       /\ localStorage' = localStorage]_vars

-----------------------------------------------------------------------------
(* C9 *)

\* The card the data model prescribes for category c: a supplied field as
\* supplied, the default for a missing one.
ExpectedCard(c) ==
  [icon |-> IF Has(c, kIcon) THEN ToText(Get(c, kIcon)) ELSE W("page-glyph"),
   name |-> IF Has(c, kName) THEN ToText(Get(c, kName)) ELSE W("Category"),
   riskLevel |-> IF Has(c, kLevel) THEN ToText(Get(c, kLevel)) ELSE W("medium"),
   description |-> IF Has(c, kDescription) THEN ToText(Get(c, kDescription))
                   ELSE W("No description provided"),
   score |-> (IF Has(c, kScore) THEN ToText(Get(c, kScore)) ELSE <<"5", "0">>)
             \o <<"/100">>]

\* The result is an object with a string risk level and an array of
\* category objects.
WellFormed(r) ==
  /\ r.t = "object"
  /\ Get(r, kRisk).t = "string"
  /\ Get(r, kCategories).t = "array"
  /\ \A k \in 1..Len(Get(r, kCategories).e) : Get(r, kCategories).e[k].t = "object"

\* C9: the cards of a displayed result are, in result order, one per
\* category, each showing the supplied fields as supplied (a supplied score
\* s as "s/100") and the default only for a missing field.
C9_CardsAsSupplied ==
  [][\A i \in 1..Len(subs) :
       (HasData(i) /\ Truthy(AnalysisOf(i))
          /\ WellFormed(parseAnalysis(AnalysisOf(i)))) =>
       LET cs == Get(parseAnalysis(AnalysisOf(i)), kCategories).e IN
       ui'.cards = [k \in 1..Len(cs) |-> ExpectedCard(cs[k])]]_vars

-----------------------------------------------------------------------------
(* C10 *)

Blank ==
  [ui |-> [progress |-> "none", status |-> "", meter |-> [percentage |-> 0, color |-> ""],
           riskText |-> <<>>, riskColor |-> "", cards |-> <<>>, results |-> "none",
           errors |-> <<>>, urlInput |-> <<>>],
   ls |-> Null, thrown |-> FALSE]

\* Nothing is displayed, or what is displayed is the rendering of what is
\* persisted.
SameSubmission(u, ls) ==
  Display(u) = Display(Blank.ui) \/
    /\ ls # Null
    /\ Display(u) = Display(displayAnalysisResults(Blank, JSONparse(ls.s).v).ui)

\* C10: with two submissions started, every response processed leaves the
\* display and 'currentAnalysis' describing the same submission, and a
\* response processed while the other request is outstanding hides the
\* progress indicator.
C10_OverlapConsistent ==
  [][\A i \in 1..Len(subs) : (Ends(i) /\ Len(subs) >= 2) =>
       /\ SameSubmission(ui', localStorage')
       /\ ((\E j \in 1..Len(subs) : j # i /\ InFlight(j)) => ui'.progress = "none")]_vars

====
